---- MODULE Spec2Model ----
(***************************************************************************)
(* Model of the SPI peripheral driver led-controller.X/source/spi.c.       *)
(*                                                                         *)
(* Registers are modelled as sets of bit positions (a mask is the set of   *)
(* its bits, `a & b` is intersection, the CLR/SET register aliases are set *)
(* difference/union).  The baud-rate arithmetic is done on unsigned        *)
(* machine integers of UIntBits bits.  Every driver function is a          *)
(* sequence of steps of one execution context; `log` records the bus       *)
(* accesses and external calls made by the call in progress, `entry` the   *)
(* registers and descriptors as they were when the call was entered.       *)
(***************************************************************************)
EXTENDS Integers, Sequences, FiniteSets

VARIABLES
    assigned,     \* spi_modules[ch].assigned
    fifo_depth,   \* spi_modules[ch].fifo_depth
    fifo_size,    \* spi_modules[ch].fifo_size
    spicon,       \* SPIxCON
    spistat,      \* SPIxSTAT
    spibrg,       \* SPIxBRG
    ifs,          \* *spi_int->ifs  (IFS1 for channel 1, IFS2 for channel 2)
    iec,          \* *spi_int->iec  (IEC1 for channel 1, IEC2 for channel 2)
    pc,           \* position of every execution context
    frame,        \* arguments, locals and return value of the call in progress
    log,          \* bus accesses / external calls of the call in progress
    entry,        \* registers and descriptors at the entry of the call
    handles,      \* the handles every context got from spi_construct
    client        \* the channel the code of this firmware drives

vars == <<assigned, fifo_depth, fifo_size, spicon, spistat, spibrg, ifs, iec,
          pc, frame, log, entry, handles, client>>

regs == <<spicon, spistat, spibrg, ifs, iec>>
desc == <<assigned, fifo_depth, fifo_size>>

----------------------------------------------------------------------------
(* Bounds of the model *)

\* width of the model's `unsigned int'
UIntBits == 3

\* largest `size' handed to a transmit call
MaxSize == 2

----------------------------------------------------------------------------
(* Constants of the program *)

SPI_FIFO_DEPTH_MODE32 == 4
SPI_FIFO_DEPTH_MODE16 == 8
SPI_FIFO_DEPTH_MODE8 == 16
SPI_FIFO_SIZE_MODE32 == 4
SPI_FIFO_SIZE_MODE16 == 2
SPI_FIFO_SIZE_MODE8 == 1

BIT(n) == {n}

SPI_SPISTAT_SPITBF_MASK == BIT(1)

\* flags of the control word (include/spi.h)
SPI_ON == BIT(15)
SPI_MSTEN == BIT(5)
SPI_MODE32 == BIT(11)
SPI_MODE16 == BIT(10)

\* peripheral bus clock (include/sys.h), scaled to the model's word
SYS_PB_CLOCK == 5

SPI_CHANNEL1 == 1
SPI_CHANNEL2 == 2
Channels == {SPI_CHANNEL1, SPI_CHANNEL2}

NULL == 0

Modulus == 2 ^ UIntBits
UInt == 0 .. (Modulus - 1)

\* the execution contexts: main code and an interrupt handler
Contexts == {"main", "isr"}

spi_module_interrupts ==
    [ch \in Channels |->
        IF ch = SPI_CHANNEL1
        THEN [fault_mask |-> BIT(3), receive_mask |-> BIT(4), transfer_mask |-> BIT(5),
              fault_irq |-> "_SPI1_ERR_IRQ", receive_irq |-> "_SPI1_RX_IRQ",
              transfer_irq |-> "_SPI1_TX_IRQ"]
        ELSE [fault_mask |-> BIT(21), receive_mask |-> BIT(22), transfer_mask |-> BIT(23),
              fault_irq |-> "_SPI2_ERR_IRQ", receive_irq |-> "_SPI2_RX_IRQ",
              transfer_irq |-> "_SPI2_TX_IRQ"]]

\* register access substrate (include/register.h): the CLR and SET aliases
atomic_reg_clr(value, mask) == value \ mask
atomic_reg_set(value, mask) == value \cup mask

----------------------------------------------------------------------------
(* Inputs *)

\* a bit of the shared flag/enable registers that belongs to another peripheral
OtherBit == BIT(0)

ChannelBits(ch) ==
    spi_module_interrupts[ch].fault_mask \cup spi_module_interrupts[ch].receive_mask
        \cup spi_module_interrupts[ch].transfer_mask

\* contents of the flag and enable registers before the driver runs
PriorBits(ch) ==
    << {}, OtherBit, ChannelBits(ch) \cup OtherBit,
       spi_module_interrupts[ch].receive_mask,
       spi_module_interrupts[ch].fault_mask \cup spi_module_interrupts[ch].transfer_mask >>

\* the configurations handed to the driver: baud rates 0, 1, the clock itself,
\* half the word's range (its double is 0 in the machine word) and the largest
\* word, with control words of every transfer width
Configs ==
    { [baudrate |-> 0, spicon_flags |-> {}],
      [baudrate |-> 1, spicon_flags |-> SPI_MSTEN],
      [baudrate |-> 1, spicon_flags |-> SPI_ON \cup SPI_MSTEN],
      [baudrate |-> SYS_PB_CLOCK, spicon_flags |-> SPI_ON \cup SPI_MSTEN \cup SPI_MODE32],
      [baudrate |-> Modulus \div 2, spicon_flags |-> SPI_ON \cup SPI_MODE16],
      [baudrate |-> Modulus - 1, spicon_flags |-> SPI_MSTEN \cup SPI_MODE32 \cup SPI_MODE16] }

\* the caller's buffer: element i holds i
Buffer == [i \in 1 .. MaxSize |-> i]

NoFrame == [op |-> "none"]
NoEntry == [op |-> "none"]

Snapshot ==
    [spicon |-> spicon, spistat |-> spistat, spibrg |-> spibrg, ifs |-> ifs,
     iec |-> iec, assigned |-> assigned, fifo_depth |-> fifo_depth,
     fifo_size |-> fifo_size]

Write(reg, ch, value) == <<"write", reg, ch, value>>
Read(reg, ch, value) == <<"read", reg, ch, value>>

----------------------------------------------------------------------------
(* Initial state: spi_modules as initialised, registers as found *)

Init ==
    /\ assigned = [ch \in Channels |-> FALSE]
    /\ fifo_depth = [ch \in Channels |-> SPI_FIFO_DEPTH_MODE8]
    /\ fifo_size = [ch \in Channels |-> SPI_FIFO_SIZE_MODE8]
    /\ spicon = [ch \in Channels |-> {}]
    /\ spistat = [ch \in Channels |-> {}]
    /\ spibrg = [ch \in Channels |-> 0]
    /\ \E p \in DOMAIN PriorBits(SPI_CHANNEL1) :
          /\ ifs = [ch \in Channels |-> PriorBits(ch)[p]]
          /\ iec = [ch \in Channels |-> PriorBits(ch)[Len(PriorBits(ch)) + 1 - p]]
    /\ pc = [c \in Contexts |-> "idle"]
    /\ frame = [c \in Contexts |-> NoFrame]
    /\ log = [c \in Contexts |-> <<>>]
    /\ entry = [c \in Contexts |-> NoEntry]
    /\ handles = [c \in Contexts |-> {}]
    /\ client \in Channels

----------------------------------------------------------------------------
(* Steps shared by the driver functions *)

\* a context enters a driver function
Enter(c, f) ==
    /\ frame' = [frame EXCEPT ![c] = f]
    /\ entry' = [entry EXCEPT ![c] = Snapshot]

\* the call in progress returns `value' to its caller
Finish(c, value) ==
    /\ pc' = [pc EXCEPT ![c] = "done"]
    /\ frame' = [frame EXCEPT ![c] = [frame[c] EXCEPT !.result = value]]

\* ASSERT(condition) of include/assert.h: a debug build halts the context
\* when the condition fails, a release build goes on
ASSERT(c, condition, continue) ==
    \/ /\ condition
       /\ continue
    \/ /\ ~condition
       /\ continue
    \/ /\ ~condition
       /\ pc' = [pc EXCEPT ![c] = "halted"]
       /\ frame' = [frame EXCEPT ![c] = NoFrame]
       /\ entry' = [entry EXCEPT ![c] = NoEntry]
       /\ UNCHANGED <<regs, desc, log, handles, client>>

\* the caller takes the return value; a handle is kept until it is released
Return(c) ==
    /\ pc[c] = "done"
    /\ pc' = [pc EXCEPT ![c] = "idle"]
    /\ handles' =
          [handles EXCEPT ![c] =
              IF frame[c].op = "spi_construct" /\ frame[c].result # NULL
              THEN @ \cup {frame[c].result}
              ELSE IF frame[c].op = "spi_destruct" THEN @ \ {frame[c].module} ELSE @]
    /\ frame' = [frame EXCEPT ![c] = NoFrame]
    /\ log' = [log EXCEPT ![c] = <<>>]
    /\ entry' = [entry EXCEPT ![c] = NoEntry]
    /\ UNCHANGED <<regs, desc, client>>

----------------------------------------------------------------------------
(* spi_construct *)

\* spi_construct without the check of the assigned flag
spi_construct_unchecked(c, channel, config) ==
    /\ pc[c] = "idle"
    /\ Enter(c, [op |-> "spi_construct", module |-> channel, config |-> config,
                 result |-> NULL])
    /\ pc' = [pc EXCEPT ![c] = "construct_assign"]
    /\ UNCHANGED <<regs, desc, log, handles, client>>

\* spi_construct with the check inverted
spi_construct_inverted(c, channel, config) ==
    /\ pc[c] = "idle"
    /\ Enter(c, [op |-> "spi_construct", module |-> channel, config |-> config,
                 result |-> NULL])
    /\ pc' = [pc EXCEPT ![c] = IF assigned[channel] THEN "construct_assign" ELSE "done"]
    /\ UNCHANGED <<regs, desc, log, handles, client>>

\* lines 97-101: the check of the assigned flag
spi_construct(c, channel, config) ==
    /\ pc[c] = "idle"
    /\ Enter(c, [op |-> "spi_construct", module |-> channel, config |-> config,
                 result |-> NULL])
    /\ pc' = [pc EXCEPT ![c] = IF assigned[channel] THEN "done" ELSE "construct_assign"]
    /\ UNCHANGED <<regs, desc, log, handles, client>>

\* line 104-105: the flag is set and spi_configure is called
construct_assign(c) ==
    /\ pc[c] = "construct_assign"
    /\ assigned' = [assigned EXCEPT ![frame[c].module] = TRUE]
    /\ pc' = [pc EXCEPT ![c] = "configure_off"]
    /\ UNCHANGED <<regs, fifo_depth, fifo_size, frame, log, entry, handles, client>>

----------------------------------------------------------------------------
(* spi_destruct *)

spi_destruct(c, module) ==
    /\ pc[c] = "idle"
    /\ Enter(c, [op |-> "spi_destruct", module |-> module, result |-> NULL])
    /\ spicon' = [spicon EXCEPT ![module] = atomic_reg_clr(@, SPI_ON)]
    /\ log' = [log EXCEPT ![c] = <<Write("spicon", module, spicon'[module])>>]
    /\ assigned' = [assigned EXCEPT ![module] = FALSE]
    /\ pc' = [pc EXCEPT ![c] = "done"]
    /\ UNCHANGED <<spistat, spibrg, ifs, iec, fifo_depth, fifo_size, handles, client>>

----------------------------------------------------------------------------
(* spi_configure *)

SPI_BRG(baudrate) ==
    ((SYS_PB_CLOCK \div ((baudrate * 2) % Modulus)) + Modulus - 1) % Modulus

\* the call itself (lines 117-121)
spi_configure(c, module, config) ==
    /\ pc[c] = "idle"
    /\ Enter(c, [op |-> "spi_configure", module |-> module, config |-> config,
                 result |-> NULL])
    /\ pc' = [pc EXCEPT ![c] = "configure_off"]
    /\ UNCHANGED <<regs, desc, log, handles, client>>

\* spi_configure without line 124
configure_off_skipped(c) ==
    /\ pc[c] = "configure_off"
    /\ pc' = [pc EXCEPT ![c] = "configure_iec"]
    /\ UNCHANGED <<regs, desc, frame, log, entry, handles, client>>

\* line 124: disable module first
configure_off(c) ==
    /\ pc[c] = "configure_off"
    /\ LET m == frame[c].module
       IN /\ spicon' = [spicon EXCEPT ![m] = atomic_reg_clr(@, SPI_ON)]
          /\ log' = [log EXCEPT ![c] = Append(@, Write("spicon", m, spicon'[m]))]
    /\ pc' = [pc EXCEPT ![c] = "configure_iec"]
    /\ UNCHANGED <<spistat, spibrg, ifs, iec, desc, frame, entry, handles, client>>

\* lines 128-130: the three interrupt-enable bits
configure_iec(c) ==
    /\ pc[c] = "configure_iec"
    /\ LET m == frame[c].module
           spi_int == spi_module_interrupts[m]
           v1 == atomic_reg_clr(iec[m], spi_int.fault_mask)
           v2 == atomic_reg_clr(v1, spi_int.receive_mask)
           v3 == atomic_reg_clr(v2, spi_int.transfer_mask)
       IN /\ iec' = [iec EXCEPT ![m] = v3]
          /\ log' = [log EXCEPT ![c] =
                        @ \o <<Write("iec", m, v1), Write("iec", m, v2), Write("iec", m, v3)>>]
    /\ pc' = [pc EXCEPT ![c] = "configure_ifs"]
    /\ UNCHANGED <<spicon, spistat, spibrg, ifs, desc, frame, entry, handles, client>>

\* lines 131-133 with the receive mask cleared twice and the transfer mask never
configure_ifs_partial(c) ==
    /\ pc[c] = "configure_ifs"
    /\ LET m == frame[c].module
           spi_int == spi_module_interrupts[m]
           v1 == atomic_reg_clr(ifs[m], spi_int.fault_mask)
           v2 == atomic_reg_clr(v1, spi_int.receive_mask)
           v3 == atomic_reg_clr(v2, spi_int.receive_mask)
       IN /\ ifs' = [ifs EXCEPT ![m] = v3]
          /\ log' = [log EXCEPT ![c] =
                        @ \o <<Write("ifs", m, v1), Write("ifs", m, v2), Write("ifs", m, v3)>>]
    /\ pc' = [pc EXCEPT ![c] = "configure_brg"]
    /\ UNCHANGED <<spicon, spistat, spibrg, iec, desc, frame, entry, handles, client>>

\* lines 131-133: the three interrupt-flag bits
configure_ifs(c) ==
    /\ pc[c] = "configure_ifs"
    /\ LET m == frame[c].module
           spi_int == spi_module_interrupts[m]
           v1 == atomic_reg_clr(ifs[m], spi_int.fault_mask)
           v2 == atomic_reg_clr(v1, spi_int.receive_mask)
           v3 == atomic_reg_clr(v2, spi_int.transfer_mask)
       IN /\ ifs' = [ifs EXCEPT ![m] = v3]
          /\ log' = [log EXCEPT ![c] =
                        @ \o <<Write("ifs", m, v1), Write("ifs", m, v2), Write("ifs", m, v3)>>]
    /\ pc' = [pc EXCEPT ![c] = "configure_brg"]
    /\ UNCHANGED <<spicon, spistat, spibrg, iec, desc, frame, entry, handles, client>>

\* line 136: the baud-rate register.  A baud rate whose double is 0 in the
\* machine word divides by zero: the build either traps or leaves any value
configure_brg(c) ==
    /\ pc[c] = "configure_brg"
    /\ LET m == frame[c].module
           baudrate == frame[c].config.baudrate
       IN \/ /\ baudrate > 0 => (baudrate * 2) % Modulus # 0
             /\ spibrg' = [spibrg EXCEPT ![m] = IF baudrate > 0 THEN SPI_BRG(baudrate) ELSE 0]
             /\ log' = [log EXCEPT ![c] = Append(@, Write("spibrg", m, spibrg'[m]))]
             /\ pc' = [pc EXCEPT ![c] = "configure_con"]
             /\ UNCHANGED <<frame, entry>>
          \/ /\ baudrate > 0 /\ (baudrate * 2) % Modulus = 0
             /\ \E any \in UInt : spibrg' = [spibrg EXCEPT ![m] = any]
             /\ log' = [log EXCEPT ![c] = Append(@, Write("spibrg", m, spibrg'[m]))]
             /\ pc' = [pc EXCEPT ![c] = "configure_con"]
             /\ UNCHANGED <<frame, entry>>
          \/ /\ baudrate > 0 /\ (baudrate * 2) % Modulus = 0
             /\ pc' = [pc EXCEPT ![c] = "halted"]
             /\ frame' = [frame EXCEPT ![c] = NoFrame]
             /\ entry' = [entry EXCEPT ![c] = NoEntry]
             /\ UNCHANGED <<spibrg, log>>
    /\ UNCHANGED <<spicon, spistat, ifs, iec, desc, handles, client>>

\* line 137: the control word
configure_con(c) ==
    /\ pc[c] = "configure_con"
    /\ LET m == frame[c].module
       IN /\ spicon' = [spicon EXCEPT ![m] = frame[c].config.spicon_flags]
          /\ log' = [log EXCEPT ![c] = Append(@, Write("spicon", m, spicon'[m]))]
    /\ pc' = [pc EXCEPT ![c] = "configure_fifo"]
    /\ UNCHANGED <<spistat, spibrg, ifs, iec, desc, frame, entry, handles, client>>

\* lines 138-147 with the 16-bit flag tested before the 32-bit flag
configure_fifo_mode16_first(c) ==
    /\ pc[c] = "configure_fifo"
    /\ LET m == frame[c].module
           flags == frame[c].config.spicon_flags
       IN /\ fifo_depth' =
                [fifo_depth EXCEPT ![m] =
                    IF flags \cap SPI_MODE16 # {} THEN SPI_FIFO_DEPTH_MODE16
                    ELSE IF flags \cap SPI_MODE32 # {} THEN SPI_FIFO_DEPTH_MODE32
                    ELSE SPI_FIFO_DEPTH_MODE8]
          /\ fifo_size' =
                [fifo_size EXCEPT ![m] =
                    IF flags \cap SPI_MODE16 # {} THEN SPI_FIFO_SIZE_MODE16
                    ELSE IF flags \cap SPI_MODE32 # {} THEN SPI_FIFO_SIZE_MODE32
                    ELSE SPI_FIFO_SIZE_MODE8]
          /\ Finish(c, IF frame[c].op = "spi_construct" THEN m ELSE NULL)
    /\ UNCHANGED <<regs, assigned, log, entry, handles, client>>

\* lines 138-147: the FIFO metrics; spi_construct then returns the module
configure_fifo(c) ==
    /\ pc[c] = "configure_fifo"
    /\ LET m == frame[c].module
           flags == frame[c].config.spicon_flags
       IN /\ fifo_depth' =
                [fifo_depth EXCEPT ![m] =
                    IF flags \cap SPI_MODE32 # {} THEN SPI_FIFO_DEPTH_MODE32
                    ELSE IF flags \cap SPI_MODE16 # {} THEN SPI_FIFO_DEPTH_MODE16
                    ELSE SPI_FIFO_DEPTH_MODE8]
          /\ fifo_size' =
                [fifo_size EXCEPT ![m] =
                    IF flags \cap SPI_MODE32 # {} THEN SPI_FIFO_SIZE_MODE32
                    ELSE IF flags \cap SPI_MODE16 # {} THEN SPI_FIFO_SIZE_MODE16
                    ELSE SPI_FIFO_SIZE_MODE8]
          /\ Finish(c, IF frame[c].op = "spi_construct" THEN m ELSE NULL)
    /\ UNCHANGED <<regs, assigned, log, entry, handles, client>>

----------------------------------------------------------------------------
(* spi_configure_dma_src, spi_configure_dma_dst: calls into the DMA subsystem *)

Call(function, channel, argument) == <<"call", function, channel, argument>>

\* spi_configure_dma_src started by the transmit interrupt
spi_configure_dma_src_transfer_irq(c, module, channel) ==
    /\ pc[c] = "idle"
    /\ Enter(c, [op |-> "spi_configure_dma_src", module |-> module, channel |-> channel,
                 result |-> NULL])
    /\ LET spi_int == spi_module_interrupts[module]
           start_event == [enable |-> TRUE, irq_vector |-> spi_int.transfer_irq]
           abort_event == [enable |-> TRUE, irq_vector |-> spi_int.fault_irq]
       IN log' = [log EXCEPT ![c] =
                    << Call("dma_configure_src", channel,
                            [address |-> <<"spibuf", module>>, count |-> 1]),
                       Call("dma_configure_cell", channel, fifo_size[module]),
                       Call("dma_configure_start_event", channel, start_event),
                       Call("dma_configure_abort_event", channel, abort_event) >>]
    /\ pc' = [pc EXCEPT ![c] = "done"]
    /\ UNCHANGED <<regs, desc, handles, client>>

spi_configure_dma_src(c, module, channel) ==
    /\ pc[c] = "idle"
    /\ Enter(c, [op |-> "spi_configure_dma_src", module |-> module, channel |-> channel,
                 result |-> NULL])
    /\ LET spi_int == spi_module_interrupts[module]
           start_event == [enable |-> TRUE, irq_vector |-> spi_int.receive_irq]
           abort_event == [enable |-> TRUE, irq_vector |-> spi_int.fault_irq]
       IN log' = [log EXCEPT ![c] =
                    << Call("dma_configure_src", channel,
                            [address |-> <<"spibuf", module>>, count |-> 1]),
                       Call("dma_configure_cell", channel, fifo_size[module]),
                       Call("dma_configure_start_event", channel, start_event),
                       Call("dma_configure_abort_event", channel, abort_event) >>]
    /\ pc' = [pc EXCEPT ![c] = "done"]
    /\ UNCHANGED <<regs, desc, handles, client>>

spi_configure_dma_dst(c, module, channel) ==
    /\ pc[c] = "idle"
    /\ Enter(c, [op |-> "spi_configure_dma_dst", module |-> module, channel |-> channel,
                 result |-> NULL])
    /\ LET spi_int == spi_module_interrupts[module]
           start_event == [enable |-> TRUE, irq_vector |-> spi_int.transfer_irq]
           abort_event == [enable |-> TRUE, irq_vector |-> spi_int.fault_irq]
       IN log' = [log EXCEPT ![c] =
                    << Call("dma_configure_dst", channel,
                            [address |-> <<"spibuf", module>>, count |-> 1]),
                       Call("dma_configure_cell", channel, fifo_size[module]),
                       Call("dma_configure_start_event", channel, start_event),
                       Call("dma_configure_abort_event", channel, abort_event) >>]
    /\ pc' = [pc EXCEPT ![c] = "done"]
    /\ UNCHANGED <<regs, desc, handles, client>>

----------------------------------------------------------------------------
(* spi_enable, spi_disable *)

spi_enable(c, module) ==
    /\ pc[c] = "idle"
    /\ Enter(c, [op |-> "spi_enable", module |-> module, result |-> NULL])
    /\ spicon' = [spicon EXCEPT ![module] = atomic_reg_set(@, SPI_ON)]
    /\ log' = [log EXCEPT ![c] = <<Write("spicon", module, spicon'[module])>>]
    /\ pc' = [pc EXCEPT ![c] = "done"]
    /\ UNCHANGED <<spistat, spibrg, ifs, iec, desc, handles, client>>

spi_disable(c, module) ==
    /\ pc[c] = "idle"
    /\ Enter(c, [op |-> "spi_disable", module |-> module, result |-> NULL])
    /\ spicon' = [spicon EXCEPT ![module] = atomic_reg_clr(@, SPI_ON)]
    /\ log' = [log EXCEPT ![c] = <<Write("spicon", module, spicon'[module])>>]
    /\ pc' = [pc EXCEPT ![c] = "done"]
    /\ UNCHANGED <<spistat, spibrg, ifs, iec, desc, handles, client>>

----------------------------------------------------------------------------
(* spi_transmit_mode32, spi_transmit_mode8 *)

\* while(size--) with `size' units left, the next one being buffer[next]:
\* the position after the test, and the locals
while_size(c, f) ==
    IF f.size # 0
    THEN /\ pc' = [pc EXCEPT ![c] = "transmit_wait"]
         /\ frame' = [frame EXCEPT ![c] = [f EXCEPT !.size = @ - 1]]
    ELSE /\ pc' = [pc EXCEPT ![c] = "done"]
         /\ frame' = [frame EXCEPT ![c] = [f EXCEPT !.result = TRUE]]

\* lines 215 (232) without the test of size
transmit_call_any_size(c, op, module, size) ==
    /\ entry' = [entry EXCEPT ![c] = Snapshot]
    /\ LET f == [op |-> op, module |-> module, size |-> size, count |-> size,
                 next |-> 1, result |-> FALSE]
       IN IF spicon[module] \cap SPI_MSTEN # {}
          THEN while_size(c, f)
          ELSE /\ pc' = [pc EXCEPT ![c] = "done"]
               /\ frame' = [frame EXCEPT ![c] = f]
    /\ UNCHANGED <<regs, desc, log, handles, client>>

\* lines 210-215 (227-232): the assertions and the test of size and master mode
transmit_call(c, op, module, size) ==
    /\ entry' = [entry EXCEPT ![c] = Snapshot]
    /\ LET f == [op |-> op, module |-> module, size |-> size, count |-> size,
                 next |-> 1, result |-> FALSE]
       IN IF size # 0 /\ spicon[module] \cap SPI_MSTEN # {}
          THEN while_size(c, f)
          ELSE /\ pc' = [pc EXCEPT ![c] = "done"]
               /\ frame' = [frame EXCEPT ![c] = f]
    /\ UNCHANGED <<regs, desc, log, handles, client>>

spi_transmit_mode32(c, module, size) ==
    /\ pc[c] = "idle"
    /\ ASSERT(c, spicon[module] \cap SPI_ON # {},
              transmit_call(c, "spi_transmit_mode32", module, size))

spi_transmit_mode8(c, module, size) ==
    /\ pc[c] = "idle"
    /\ ASSERT(c, spicon[module] \cap SPI_ON # {},
              transmit_call(c, "spi_transmit_mode8", module, size))

\* line 217 (234) as a single read: the unit is written whatever was read
transmit_wait_once(c) ==
    /\ pc[c] = "transmit_wait"
    /\ LET m == frame[c].module
       IN log' = [log EXCEPT ![c] = Append(@, Read("spistat", m, spistat[m]))]
    /\ pc' = [pc EXCEPT ![c] = "transmit_write"]
    /\ UNCHANGED <<regs, desc, frame, entry, handles, client>>

\* line 217 (234) with a timeout: a full buffer ends the call
transmit_wait_timeout(c) ==
    /\ pc[c] = "transmit_wait"
    /\ LET m == frame[c].module
       IN /\ log' = [log EXCEPT ![c] = Append(@, Read("spistat", m, spistat[m]))]
          /\ pc' = [pc EXCEPT ![c] =
                       IF spistat[m] \cap SPI_SPISTAT_SPITBF_MASK # {} THEN "done"
                       ELSE "transmit_write"]
    /\ UNCHANGED <<regs, desc, frame, entry, handles, client>>

\* line 217 (234): one read of the status register by the busy-wait.  The log
\* keeps one entry for a run of reads that observed the same value
transmit_wait(c) ==
    /\ pc[c] = "transmit_wait"
    /\ LET m == frame[c].module
           seen == spistat[m]
           n == Len(log[c])
           again == n > 0 /\ log[c][n][1] = "read" /\ log[c][n][4] = seen
       IN /\ log' = [log EXCEPT ![c] = IF again THEN @ ELSE Append(@, Read("spistat", m, seen))]
          /\ pc' = [pc EXCEPT ![c] =
                       IF seen \cap SPI_SPISTAT_SPITBF_MASK # {} THEN "transmit_wait"
                       ELSE "transmit_write"]
    /\ UNCHANGED <<regs, desc, frame, entry, handles, client>>

\* the transmit buffer after a unit was written to it: full or not, as the
\* hardware finds it
BufferWritten(status) == {status, status \cup SPI_SPISTAT_SPITBF_MASK}

\* line 218 (235): the next unit goes to the data-buffer register
transmit_write(c) ==
    /\ pc[c] = "transmit_write"
    /\ LET m == frame[c].module
           f == frame[c]
       IN /\ log' = [log EXCEPT ![c] = Append(@, Write("spibuf", m, Buffer[f.next]))]
          /\ \E status \in BufferWritten(spistat[m]) :
                spistat' = [spistat EXCEPT ![m] = status]
          /\ while_size(c, [f EXCEPT !.next = @ + 1])
    /\ UNCHANGED <<spicon, spibrg, ifs, iec, desc, entry, handles, client>>

\* the hardware shifts a unit out: the transmit buffer is no longer full
shift_out(ch) ==
    /\ spistat[ch] \cap SPI_SPISTAT_SPITBF_MASK # {}
    /\ spistat' = [spistat EXCEPT ![ch] = @ \ SPI_SPISTAT_SPITBF_MASK]
    /\ UNCHANGED <<spicon, spibrg, ifs, iec, desc, pc, frame, log, entry, handles, client>>

\* the DMA channels of the external DMA subsystem
DmaChannels == {"dma_channel"}

----------------------------------------------------------------------------
(* Next-state relations *)

\* one context, holding the handles it was given
Step(c) ==
    \/ \E config \in Configs : spi_construct(c, client, config)
    \/ construct_assign(c)
    \/ \E module \in handles[c] : spi_destruct(c, module)
    \/ \E module \in handles[c], config \in Configs : spi_configure(c, module, config)
    \/ configure_off(c)
    \/ configure_iec(c)
    \/ configure_ifs(c)
    \/ configure_brg(c)
    \/ configure_con(c)
    \/ configure_fifo(c)
    \/ \E module \in handles[c], channel \in DmaChannels :
          spi_configure_dma_src(c, module, channel)
    \/ \E module \in handles[c], channel \in DmaChannels :
          spi_configure_dma_dst(c, module, channel)
    \/ \E module \in handles[c] : spi_enable(c, module)
    \/ \E module \in handles[c] : spi_disable(c, module)
    \/ \E module \in handles[c], size \in 0 .. MaxSize : spi_transmit_mode32(c, module, size)
    \/ \E module \in handles[c], size \in 0 .. MaxSize : spi_transmit_mode8(c, module, size)
    \/ transmit_wait(c)
    \/ transmit_write(c)
    \/ Return(c)

Hardware == \E ch \in Channels : shift_out(ch)

\* the firmware's main code alone, and the SPI hardware
Next == Step("main") \/ Hardware

Spec == Init /\ [][Next]_vars

\* the same, with the processor executing the busy-wait and the hardware
\* eventually shifting out what the transmit buffer holds
LiveSpec ==
    /\ Spec
    /\ WF_vars(transmit_wait("main"))
    /\ WF_vars(transmit_write("main"))
    /\ \A ch \in Channels : WF_vars(shift_out(ch))

\* the configurations used where two contexts acquire and release channels
RaceConfigs == {cfg \in Configs : cfg.baudrate = 1}

\* acquisition and release by one of two contexts
Lifecycle(c) ==
    \/ \E config \in RaceConfigs : spi_construct(c, client, config)
    \/ construct_assign(c)
    \/ configure_off(c)
    \/ configure_iec(c)
    \/ configure_ifs(c)
    \/ configure_brg(c)
    \/ configure_con(c)
    \/ configure_fifo(c)
    \/ \E module \in handles[c] : spi_destruct(c, module)
    \/ Return(c)

\* main code and an interrupt handler: the handler runs to its end once it
\* has started, the main code runs while no handler does
RaceNext ==
    \/ Lifecycle("isr")
    \/ pc["isr"] = "idle" /\ Lifecycle("main")

RaceSpec == Init /\ [][RaceNext]_vars

----------------------------------------------------------------------------
(* Vocabulary of the properties *)

TransmitOps == {"spi_transmit_mode32", "spi_transmit_mode8"}
ConfigureOps == {"spi_construct", "spi_configure"}

InCall(c) == pc[c] \notin {"idle", "halted"}
Returned(c, ops) == pc[c] = "done" /\ frame[c].op \in ops

IsWrite(e, reg) == e[1] = "write" /\ e[2] = reg
WritesTo(l, reg) == SelectSeq(l, LAMBDA e : IsWrite(e, reg))

BufferFull(status) == status \cap SPI_SPISTAT_SPITBF_MASK # {}
ModeFlags(word) == word \cap (SPI_MODE32 \cup SPI_MODE16)

\* the call of context c left the descriptors, the control, baud-rate, flag
\* and enable registers as it found them
Untouched(c) ==
    /\ spicon = entry[c].spicon
    /\ spibrg = entry[c].spibrg
    /\ ifs = entry[c].ifs
    /\ iec = entry[c].iec
    /\ assigned = entry[c].assigned
    /\ fifo_depth = entry[c].fifo_depth
    /\ fifo_size = entry[c].fifo_size

----------------------------------------------------------------------------
(* C1: with a single context calling, spi_construct returns the handle       *)
(* exactly when the channel's descriptor was unassigned and NULL when it was *)
(* assigned; it finds the descriptor assigned exactly when the caller holds  *)
(* a handle it has not released, so a second construct fails and a construct *)
(* after spi_destruct succeeds.                                              *)
C1_ConstructExclusive ==
    Returned("main", {"spi_construct"}) =>
        LET m == frame["main"].module
        IN /\ frame["main"].result \in {NULL, m}
           /\ frame["main"].result = m <=> ~entry["main"].assigned[m]
           /\ frame["main"].result = NULL <=> m \in handles["main"]
           /\ assigned[m]

\* a channel that was configured for 32-bit units and released is acquired again
C1_Reacquired ==
    /\ Returned("main", {"spi_construct"})
    /\ frame["main"].result = frame["main"].module
    /\ entry["main"].fifo_size[frame["main"].module] = SPI_FIFO_SIZE_MODE32

----------------------------------------------------------------------------
(* C2: a transmit call with size N > 0 on an enabled module in master mode   *)
(* returns true after exactly N writes to the data-buffer register, the      *)
(* buffer's elements in order, and every such write comes right after a read *)
(* of the status register that saw the transmit-buffer-full flag clear.      *)
C2_TransmitWritesAll ==
    \A c \in Contexts :
        frame[c].op \in TransmitOps =>
            LET m == frame[c].module
                l == log[c]
                N == frame[c].count
            IN /\ \A i \in DOMAIN l :
                     IsWrite(l[i], "spibuf") =>
                        /\ i > 1
                        /\ l[i - 1][1] = "read" /\ l[i - 1][2] = "spistat"
                        /\ l[i - 1][3] = m /\ ~BufferFull(l[i - 1][4])
               /\ (pc[c] = "done" /\ N > 0
                     /\ SPI_ON \cup SPI_MSTEN \subseteq entry[c].spicon[m]) =>
                        /\ frame[c].result = TRUE
                        /\ WritesTo(l, "spibuf")
                              = [i \in 1 .. N |-> Write("spibuf", m, Buffer[i])]

\* a call with the largest size that had to wait for the buffer has returned
C2_WaitedAndSent ==
    /\ Returned("main", TransmitOps)
    /\ frame["main"].result = TRUE
    /\ frame["main"].count = MaxSize
    /\ \E i \in DOMAIN log["main"] :
          log["main"][i][1] = "read" /\ BufferFull(log["main"][i][4])

----------------------------------------------------------------------------
(* C3: a transmit call with size 0, or on a module whose control register    *)
(* has no master-mode bit, never reaches the busy-wait; it returns false,    *)
(* makes no bus access and leaves the registers and the descriptors alone.   *)
C3_TransmitRejects ==
    \A c \in Contexts :
        (frame[c].op \in TransmitOps
            /\ (frame[c].count = 0
                  \/ entry[c].spicon[frame[c].module] \cap SPI_MSTEN = {})) =>
           /\ pc[c] = "done"
           /\ frame[c].result = FALSE
           /\ log[c] = <<>>
           /\ Untouched(c)

\* a call with a buffer to send was refused: the enabled module is a slave
C3_RefusedSlave ==
    /\ Returned("main", TransmitOps)
    /\ frame["main"].count > 0
    /\ SPI_ON \subseteq entry["main"].spicon[frame["main"].module]
    /\ entry["main"].spicon[frame["main"].module] \cap SPI_MSTEN = {}
    /\ frame["main"].result = FALSE

----------------------------------------------------------------------------
(* C4: in every execution of spi_configure, alone or inside spi_construct,   *)
(* the write that clears the 'on' bit of the control register is the first   *)
(* register write; the bit stays clear, and the control register is not      *)
(* written, while the enable and flag bits are cleared and the baud-rate     *)
(* register is written; the only other write of the control register is the  *)
(* control word, the last register write.                                    *)
C4_DisabledWhileConfigured ==
    \A c \in Contexts :
        frame[c].op \in ConfigureOps =>
            LET m == frame[c].module
                l == log[c]
            IN /\ pc[c] \in {"construct_assign", "configure_off"} => l = <<>>
               /\ pc[c] \in {"configure_iec", "configure_ifs", "configure_brg",
                             "configure_con"} =>
                     /\ spicon[m] \cap SPI_ON = {}
                     /\ Len(l) >= 1
                     /\ IsWrite(l[1], "spicon") /\ l[1][3] = m /\ l[1][4] \cap SPI_ON = {}
                     /\ \A i \in 2 .. Len(l) :
                           l[i][2] \in {"iec", "ifs", "spibrg"} /\ l[i][3] = m
               /\ (pc[c] = "configure_fifo"
                     \/ (pc[c] = "done" /\ (frame[c].op = "spi_configure"
                                              \/ frame[c].result = m))) =>
                     /\ Len(l) = 9
                     /\ IsWrite(l[1], "spicon") /\ l[1][3] = m /\ l[1][4] \cap SPI_ON = {}
                     /\ \A i \in 2 .. 4 : IsWrite(l[i], "iec") /\ l[i][3] = m
                     /\ \A i \in 5 .. 7 : IsWrite(l[i], "ifs") /\ l[i][3] = m
                     /\ IsWrite(l[8], "spibrg") /\ l[8][3] = m
                     /\ IsWrite(l[9], "spicon") /\ l[9][3] = m
                     /\ l[9][4] = frame[c].config.spicon_flags

\* a module that was on is being reconfigured: its baud rate is about to change
C4_ReconfiguringEnabled ==
    /\ pc["main"] = "configure_brg"
    /\ frame["main"].op = "spi_configure"
    /\ SPI_ON \subseteq entry["main"].spicon[frame["main"].module]

----------------------------------------------------------------------------
(* C5: when spi_configure returns, the channel's three interrupt-enable bits *)
(* and three interrupt-flag bits are clear whatever they were, and every     *)
(* other bit of the flag and enable registers is as it was.                  *)
C5_InterruptsCleared ==
    \A c \in Contexts :
        (Returned(c, ConfigureOps)
            /\ (frame[c].op = "spi_configure" \/ frame[c].result # NULL)) =>
           LET m == frame[c].module
               int == spi_module_interrupts[m]
               mine == int.fault_mask \cup int.receive_mask \cup int.transfer_mask
           IN /\ Cardinality(mine) = 3
              /\ iec[m] \cap mine = {}
              /\ ifs[m] \cap mine = {}
              /\ iec[m] = entry[c].iec[m] \ mine
              /\ ifs[m] = entry[c].ifs[m] \ mine
              /\ \A ch \in Channels \ {m} :
                    iec[ch] = entry[c].iec[ch] /\ ifs[ch] = entry[c].ifs[ch]

\* configure returned on a channel whose three flags and another
\* peripheral's flag were all set
C5_AllFlagsWereSet ==
    /\ Returned("main", ConfigureOps)
    /\ frame["main"].result # NULL
    /\ \E m \in Channels :
          /\ m = frame["main"].module
          /\ entry["main"].ifs[m] = ChannelBits(m) \cup OtherBit
          /\ ifs[m] = OtherBit

----------------------------------------------------------------------------
(* C6: spi_configure writes C / (2B) - 1 to the baud-rate register when the  *)
(* baud rate B is positive and 0 when it is 0, a non-negative divisor that   *)
(* no overflow or wrap-around has changed (C the peripheral clock).          *)
C6_DivisorAsSpecified ==
    \A c \in Contexts :
        frame[c].op \in ConfigureOps =>
            LET m == frame[c].module
                B == frame[c].config.baudrate
                divisor == IF B > 0 THEN (SYS_PB_CLOCK \div (2 * B)) - 1 ELSE 0
            IN /\ pc[c] = "configure_con" =>
                    /\ divisor >= 0
                    /\ spibrg[m] = divisor

----------------------------------------------------------------------------
(* The FIFO metrics of a channel whose control word is written and whose     *)
(* metrics are not yet derived from it are not compared with it.             *)
Derived(ch) == \A c \in Contexts : ~(pc[c] = "configure_fifo" /\ frame[c].module = ch)

Metrics(ch) == <<fifo_size[ch], fifo_depth[ch]>>

\* spi_enable, spi_disable, spi_destruct, the DMA helpers and the transmit
\* calls change neither the metrics nor the mode flags
MetricsKept ==
    \A c \in Contexts :
        (InCall(c) /\ frame[c].op \notin ConfigureOps) =>
            /\ fifo_size = entry[c].fifo_size
            /\ fifo_depth = entry[c].fifo_depth
            /\ \A ch \in Channels : ModeFlags(spicon[ch]) = ModeFlags(entry[c].spicon[ch])

(* C7, as stated: for every control word, the 32-bit flag set gives size 4   *)
(* and depth 4, the 16-bit flag set gives size 2 and depth 8, neither flag   *)
(* gives size 1 and depth 16; the other calls keep metrics and mode flags.   *)
C7_MetricsPerFlag ==
    /\ \A ch \in Channels :
          Derived(ch) =>
             /\ SPI_MODE32 \subseteq spicon[ch] => Metrics(ch) = <<4, 4>>
             /\ SPI_MODE16 \subseteq spicon[ch] => Metrics(ch) = <<2, 8>>
             /\ ModeFlags(spicon[ch]) = {} => Metrics(ch) = <<1, 16>>
    /\ MetricsKept

(* C7, amended: the 32-bit flag set gives size 4 and depth 4 whatever the    *)
(* 16-bit flag is; the 16-bit flag set with the 32-bit flag clear gives size *)
(* 2 and depth 8; neither flag gives size 1 and depth 16; the other calls    *)
(* keep metrics and mode flags.                                              *)
C7_MetricsByPriority ==
    /\ \A ch \in Channels :
          Derived(ch) =>
             /\ SPI_MODE32 \subseteq spicon[ch] => Metrics(ch) = <<4, 4>>
             /\ (SPI_MODE16 \subseteq spicon[ch] /\ spicon[ch] \cap SPI_MODE32 = {}) =>
                   Metrics(ch) = <<2, 8>>
             /\ ModeFlags(spicon[ch]) = {} => Metrics(ch) = <<1, 16>>
    /\ MetricsKept

\* a control word with both mode flags was written and the module enabled since
C7_BothFlagsSet ==
    /\ Returned("main", {"spi_enable"})
    /\ SPI_MODE32 \cup SPI_MODE16 \cup SPI_ON \subseteq spicon[frame["main"].module]
    /\ Metrics(frame["main"].module) = <<4, 4>>

----------------------------------------------------------------------------
(* C8: spi_configure_dma_src programs the DMA channel as a source with an    *)
(* enabled start event on the SPI channel's receive IRQ, spi_configure_dma_  *)
(* dst as a destination with an enabled start event on its transmit IRQ;     *)
(* both with an enabled abort event on its fault IRQ, its data-buffer        *)
(* register as address, a unit count of 1 and the descriptor's fifo_size as  *)
(* cell size; neither changes an SPI register or the descriptor.             *)
Argument(l, function) == l[CHOOSE i \in DOMAIN l : l[i][2] = function][4]
CalledOnce(l, function, channel) ==
    Cardinality({i \in DOMAIN l : l[i][1] = "call" /\ l[i][2] = function
                                    /\ l[i][3] = channel}) = 1

C8_DmaWiring ==
    \A c \in Contexts :
        Returned(c, {"spi_configure_dma_src", "spi_configure_dma_dst"}) =>
            LET m == frame[c].module
                l == log[c]
                src == frame[c].op = "spi_configure_dma_src"
                rx == IF m = SPI_CHANNEL1 THEN "_SPI1_RX_IRQ" ELSE "_SPI2_RX_IRQ"
                tx == IF m = SPI_CHANNEL1 THEN "_SPI1_TX_IRQ" ELSE "_SPI2_TX_IRQ"
                err == IF m = SPI_CHANNEL1 THEN "_SPI1_ERR_IRQ" ELSE "_SPI2_ERR_IRQ"
                target == IF src THEN "dma_configure_src" ELSE "dma_configure_dst"
            IN /\ Len(l) = 4
               /\ \A f \in {target, "dma_configure_cell", "dma_configure_start_event",
                            "dma_configure_abort_event"} :
                     CalledOnce(l, f, frame[c].channel)
               /\ Argument(l, target) = [address |-> <<"spibuf", m>>, count |-> 1]
               /\ Argument(l, "dma_configure_cell") = entry[c].fifo_size[m]
               /\ Argument(l, "dma_configure_start_event")
                     = [enable |-> TRUE, irq_vector |-> IF src THEN rx ELSE tx]
               /\ Argument(l, "dma_configure_abort_event")
                     = [enable |-> TRUE, irq_vector |-> err]
               /\ Untouched(c)

\* the second channel, configured for 32-bit units, is wired as a destination
C8_WiredDestination ==
    /\ Returned("main", {"spi_configure_dma_dst"})
    /\ frame["main"].module = SPI_CHANNEL2
    /\ fifo_size[SPI_CHANNEL2] = SPI_FIFO_SIZE_MODE32

----------------------------------------------------------------------------
(* C9: with main code and an interrupt handler both calling spi_construct,   *)
(* a call returns the handle exactly when the assigned flag was clear at its *)
(* check, whatever the flag is when the call sets it: the check and the set  *)
(* are two steps, and both contexts can come to hold the handle of the same  *)
(* descriptor.                                                               *)
C9_DecidedAtCheck ==
    \A c \in Contexts :
        frame[c].op = "spi_construct" =>
            LET m == frame[c].module
            IN /\ pc[c] = "construct_assign" => ~entry[c].assigned[m]
               /\ pc[c] = "done" => (frame[c].result = m <=> ~entry[c].assigned[m])
               /\ pc[c] = "done" => (frame[c].result = NULL <=> entry[c].assigned[m])

\* both contexts hold the handle of the same descriptor
C9_TwoOwners == handles["main"] \cap handles["isr"] # {}

----------------------------------------------------------------------------
(* C10: a transmit call that waits for the transmit buffer has no timeout.   *)
(* If the processor runs and the hardware eventually clears the buffer-full  *)
(* flag whenever it is set, the call returns true after writing all its      *)
(* units; as long as the flag stays set the call neither returns nor writes. *)
C10_BlocksUntilSent ==
    /\ [](pc["main"] = "transmit_wait" =>
            <>(/\ Returned("main", TransmitOps)
               /\ frame["main"].result = TRUE
               /\ Len(WritesTo(log["main"], "spibuf")) = frame["main"].count))
    /\ [][(/\ pc["main"] = "transmit_wait"
           /\ BufferFull(spistat[frame["main"].module])
           /\ BufferFull(spistat'[frame["main"].module]))
              => (/\ pc'["main"] = "transmit_wait"
                  /\ WritesTo(log'["main"], "spibuf") = WritesTo(log["main"], "spibuf"))]_vars

\* the call has seen the buffer full and is waiting, one unit already written
C10_Waiting ==
    /\ pc["main"] = "transmit_wait"
    /\ BufferFull(spistat[frame["main"].module])
    /\ Len(WritesTo(log["main"], "spibuf")) = 1
    /\ \E i \in DOMAIN log["main"] :
          log["main"][i][1] = "read" /\ BufferFull(log["main"][i][4])

====
